---- MODULE Spec2Model ----
(***************************************************************************)
(* Model of klippy/extras/adxl345.py: the ADXL345 bulk-sample acquisition  *)
(* object.  Two threads act on one ADXL345 instance:                       *)
(*   - the main (reactor) thread runs cmd_ACCELEROMETER_MEASURE, do_start  *)
(*     and do_end, one command at a time;                                  *)
(*   - the background (serial) thread runs the registered response         *)
(*     handlers _handle_adxl345_start and _handle_adxl345_data, one        *)
(*     message at a time.                                                  *)
(* The object holds no lock, so the two threads interleave between the     *)
(* accesses to the shared fields (self.samples, self.last_sequence,        *)
(* self.samples_start1/2).  Each action below is a maximal run of source   *)
(* lines containing accesses that the other thread cannot tell apart from  *)
(* one atomic access.                                                      *)
(*                                                                         *)
(* Python lists are objects: self.samples, do_end's local `samples` and    *)
(* the handler's local `samples` are references into `heap`.               *)
(*                                                                         *)
(* Times are integers (one unit = one mcu tick); the float divisions of    *)
(* do_end are kept exact as fractions <<numerator, denominator>>.          *)
(***************************************************************************)
EXTENDS Integers, Sequences, FiniteSets, TLC

---------------------------------------------------------------------------
(* Program constants *)

\* adxl345.py:9-12
QUERY_RATES ==
    [r \in {25, 50, 100, 200, 400, 800, 1600, 3200} |->
        CASE r = 25 -> 8 [] r = 50 -> 9 [] r = 100 -> 10 [] r = 200 -> 11
          [] r = 400 -> 12 [] r = 800 -> 13 [] r = 1600 -> 14 [] r = 3200 -> 15]

REG_DEVID == 0
REG_BW_RATE == 44
REG_DATA_FORMAT == 49
REG_FIFO_CTL == 56
REG_MOD_READ == 128

\* adxl345.py:84, the device id a genuine chip answers
ADXL345_DEVID == 229
\* adxl345.py:66-68, the sequence field is 16 bits wide: 0x10000
SEQ_WRAP == 65536
\* adxl345.py:123, a fully packed batch carries 8 samples
SAMPLES_PER_BATCH == 8
\* adxl345.py:123 and 144, one sample is 6 bytes (three 16-bit fields)
BYTES_PER_SAMPLE == 6
\* adxl345.py:141, the sign bit of the high byte (0x80)
SIGN_BIT == 128

---------------------------------------------------------------------------
(* Bounds of the model *)

\* adxl345.py:71 caps len(self.samples) at 200000 batches; the model keeps
\* the comparison of line 71 and runs it with this smaller cap.
SampleCap == 1
\* Extended sequence values are explored up to this value (one wrap).
MaxSequence == 65536
\* Data messages may outlive the stop command: at most this many are
\* delivered between a stop and the next start.
MaxTrailing == 1
\* The drained lists the report of do_end is computed for hold at most this
\* many batches.
MaxBatches == 2

\* Inputs -----------------------------------------------------------------
\* RATE parameters of ACCELEROMETER_MEASURE: stop, a supported rate and an
\* unsupported one.
RateInputs == {0, 100, 7}
\* Raw 16-bit sequence fields of adxl345_data messages: consecutive values;
\* a 0 after a 1 is a wrap of the counter.
RawSequences == {0, 1}
\* Raw 16-bit sequence fields of adxl345_end messages.
EndSequences == {0, 1, 2}
\* The values of one field of a sample: 13 bit two's complement.
FieldValues == -4096..4095
\* The two bytes the chip sends for a field value: little endian, sign
\* extended to 16 bit.
Encode16(v) == <<(v % SEQ_WRAP) % 256, (v % SEQ_WRAP) \div 256>>
\* The six bytes of a sample with x = v, y = -v - 1, z = v.
SampleBytes(v) == Encode16(v) \o Encode16(0 - v - 1) \o Encode16(v)
\* The data field of an adxl345_data message is named by <<n, v>>: n samples,
\* each with the bytes SampleBytes(v).  DataBytes(data) is the bytes.
DataBytes(data) ==
    LET sample == SampleBytes(data[2])
    IN  [i \in 1..(data[1] * BYTES_PER_SAMPLE) |->
            sample[((i - 1) % BYTES_PER_SAMPLE) + 1]]
\* The bytes of every data field, computed once, by n and v.
AllBytes ==
    [n \in 0..SAMPLES_PER_BATCH |-> [v \in FieldValues |-> DataBytes(<<n, v>>)]]
\* bytearray(params['data'])
bytearray(data) == AllBytes[data[1]][data[2]]
\* The data fields the handler is given: no sample, eight samples.
Payloads == {<<0, 0>>, <<SAMPLES_PER_BATCH, 100>>}
\* The data fields of the batches a drained list is drawn with: those, a
\* batch of three samples, and one sample of every field value.
ReportPayloads ==
    Payloads \cup {<<3, -5>>} \cup {<<1, v>> : v \in FieldValues}
\* Raw sequence fields of the batches a drained list is drawn with.
ReportSequences == {0, 1, 2}
\* Device-id bytes answered to the identification read.
DevIds == {ADXL345_DEVID, 0}
\* Clock readings the mcu reports in adxl345_start and adxl345_end.
Clocks == {1, 2}
\* Print times toolhead.get_last_move_time() returns.
PrintTimes == {1}
\* limit_count fields of adxl345_end messages.
LimitCounts == {0}
\* References to list objects; 0 is "no reference" (a dead local).
ListIds == 1..3

---------------------------------------------------------------------------
VARIABLES
    \* fields of the ADXL345 object (adxl345.py:26-31)
    query_rate, last_tx_time, samples, last_sequence,
    samples_start1, samples_start2,
    \* the list objects
    heap,
    \* main thread: position, the command's RATE, and the locals of
    \* do_start / do_end
    main_pc, rate, print_time, end_params, e_samples, end_sequence,
    total_count,
    \* background thread: position and the locals of _handle_adxl345_data
    h_pc, h_last_sequence, h_sequence, h_samples,
    \* the mcu owes an adxl345_start message; the number of adxl345_data
    \* messages delivered since the stream was last stopped
    start_due, trailing,
    \* what the current (or last) command did, as seen from outside:
    \* its outcome, the messages it sent to the device, the file it wrote
    result, sent, csv,
    \* history: the extended value of the previous delivery since the
    \* context was last reset (-1: none yet)
    prev_sequence

objvars == <<query_rate, last_tx_time, samples, last_sequence,
             samples_start1, samples_start2>>
mainvars == <<main_pc, rate, print_time, end_params, e_samples,
              end_sequence, total_count>>
hvars == <<h_pc, h_last_sequence, h_sequence, h_samples>>
outvars == <<result, sent, csv>>
vars == <<objvars, heap, mainvars, hvars, start_due, trailing, outvars,
          prev_sequence>>

---------------------------------------------------------------------------
(* Helpers *)

Min(a, b) == IF a < b THEN a ELSE b

\* x & ~0xffff for x >= 0
HighBits(x) == x - (x % SEQ_WRAP)

\* A fraction n/d with d # 0, kept with a positive denominator.
Frac(n, d) == IF d < 0 THEN <<0 - n, 0 - d>> ELSE <<n, d>>

\* mcu.print_time_to_clock / mcu.clock_to_print_time(clock32_to_clock64()):
\* the mcu's affine clock mapping; the unit of print time is one tick.
CLOCK_OFFSET == 1
MCU_FREQ == 16000000
print_time_to_clock(t) == t + CLOCK_OFFSET
_clock_to_print_time(clock) == clock - CLOCK_OFFSET
\* mcu.seconds_to_clock(4. / rate)
rest_ticks_of(r) == (4 * MCU_FREQ) \div r


\* The list objects some reference can still reach.
Live(s, e, h) == {s, e, h} \ {0}
\* Unreachable list objects are collected: their slots read as empty.
Collect(f, live) == [i \in ListIds |-> IF i \in live THEN f[i] ELSE << >>]
\* The slot a new list object gets.
NewList(live) == CHOOSE i \in ListIds : i \notin live /\ \A j \in ListIds : j \notin live => i <= j

---------------------------------------------------------------------------
Init ==
    /\ query_rate = 0
    /\ last_tx_time = 0
    /\ samples = 1
    /\ heap = [i \in ListIds |-> << >>]
    /\ last_sequence = 0
    /\ samples_start1 = 0
    /\ samples_start2 = 0
    /\ main_pc = "idle"
    /\ rate = 0
    /\ print_time = 0
    /\ end_params = FALSE
    /\ e_samples = 0
    /\ end_sequence = 0
    /\ total_count = 0
    /\ h_pc = "idle"
    /\ h_last_sequence = 0
    /\ h_sequence = 0
    /\ h_samples = 0
    /\ start_due = FALSE
    /\ trailing = 0
    /\ result = "none"
    /\ sent = << >>
    /\ csv = << >>
    /\ prev_sequence = -1

---------------------------------------------------------------------------
\* gcode_return touches only the report and the dead frame of the command,
\* so every background step commutes with it: the background steps that
\* could fall between a command's end and its gcode_return are taken after
\* it.
ReportTaken == main_pc # "done"

---------------------------------------------------------------------------
(* Background thread: _handle_adxl345_start, adxl345.py:61-63 *)

_handle_adxl345_start ==
    /\ ReportTaken
    /\ h_pc = "idle"
    /\ start_due
    /\ \E c1 \in Clocks, c2 \in Clocks :
         /\ samples_start1' = _clock_to_print_time(c1)
         /\ samples_start2' = _clock_to_print_time(c2)
    /\ start_due' = FALSE
    /\ UNCHANGED <<query_rate, last_tx_time, samples, last_sequence, heap,
                   mainvars, hvars, outvars, prev_sequence, trailing>>

---------------------------------------------------------------------------
(* Background thread: _handle_adxl345_data, adxl345.py:64-74 *)

\* Mutant of ExtendSequence: the wrap of lines 67-68 is missing.
ExtendSequence_NoWrap(last, raw) == HighBits(last) + raw

\* adxl345.py:66-68
ExtendSequence(last, raw) ==
    LET sequence == HighBits(last) + raw
    IN  IF sequence < last THEN sequence + SEQ_WRAP ELSE sequence

\* Mutant of BufferFull: > for >=.
BufferFull_OffByOne(list) == Len(list) > SampleCap

\* adxl345.py:71
BufferFull(list) == Len(list) >= SampleCap

\* The handler is entered with a message and reads self.last_sequence
\* (line 65).  The fields of the message are drawn where the handler first
\* reads them (lines 66 and 74).
handle_data_65 ==
    /\ ReportTaken
    /\ h_pc = "idle"
    /\ query_rate # 0 \/ trailing < MaxTrailing
    /\ trailing' = IF query_rate = 0 THEN trailing + 1 ELSE trailing
    /\ h_last_sequence' = last_sequence
    /\ h_pc' = "h66"
    /\ UNCHANGED <<objvars, heap, mainvars, h_sequence, h_samples, start_due,
                   outvars, prev_sequence>>

\* Mutant of handle_data_66: line 69 is missing.
handle_data_66_NoStore ==
    /\ ReportTaken
    /\ h_pc = "h66"
    /\ \E raw \in RawSequences :
         /\ ExtendSequence(h_last_sequence, raw) <= MaxSequence
         /\ h_sequence' = ExtendSequence(h_last_sequence, raw)
    /\ prev_sequence' = h_sequence'
    /\ h_last_sequence' = 0
    /\ h_pc' = "h70"
    /\ UNCHANGED <<objvars, heap, mainvars, h_samples, start_due, trailing,
                   outvars>>

\* Lines 66-69: extend params['sequence'] and store it in
\* self.last_sequence; the local last_sequence is dead from here on.
handle_data_66 ==
    /\ ReportTaken
    /\ h_pc = "h66"
    /\ \E raw \in RawSequences :
         /\ ExtendSequence(h_last_sequence, raw) <= MaxSequence
         /\ h_sequence' = ExtendSequence(h_last_sequence, raw)
    /\ last_sequence' = h_sequence'
    /\ prev_sequence' = h_sequence'
    /\ h_last_sequence' = 0
    /\ h_pc' = "h70"
    /\ UNCHANGED <<query_rate, last_tx_time, samples, samples_start1,
                   samples_start2, heap, mainvars, h_samples, start_due,
                   trailing, outvars>>

\* Line 70: samples = self.samples.
handle_data_70 ==
    /\ ReportTaken
    /\ h_pc = "h70"
    /\ h_samples' = samples
    /\ h_pc' = "h71"
    /\ UNCHANGED <<objvars, heap, mainvars, h_last_sequence, h_sequence,
                   start_due, trailing, outvars, prev_sequence>>

\* Lines 71-74: return if the list is full, else append
\* (sequence, params['data']); the handler returns.
handle_data_71 ==
    /\ ReportTaken
    /\ h_pc = "h71"
    /\ \E data \in Payloads :
         LET stored == IF BufferFull(heap[h_samples])
                       THEN heap
                       ELSE [heap EXCEPT ![h_samples] = Append(@, <<h_sequence, data>>)]
         IN  heap' = Collect(stored, Live(samples, e_samples, 0))
    /\ h_pc' = "idle"
    /\ h_sequence' = 0
    /\ h_samples' = 0
    /\ UNCHANGED <<objvars, mainvars, h_last_sequence, start_due, trailing,
                   outvars, prev_sequence>>

---------------------------------------------------------------------------
(* Main thread: do_end, adxl345.py:106-151 *)

\* Mutant of _convert_sequence: the wrap of lines 77-78 is missing.
_convert_sequence_NoWrap(sequence) == HighBits(last_sequence) + sequence

\* adxl345.py:75-79, reads self.last_sequence
_convert_sequence(sequence) ==
    LET extended == HighBits(last_sequence) + sequence
    IN  IF extended < last_sequence THEN extended + SEQ_WRAP ELSE extended

\* Mutant of TotalCount: the - 1 of line 123 is missing.
TotalCount_NoMinusOne(end_seq, last_batch) ==
    end_seq * SAMPLES_PER_BATCH
      + (Len(bytearray(last_batch[2])) \div BYTES_PER_SAMPLE)

\* adxl345.py:123, with samples[-1] the last stored batch
TotalCount(end_seq, last_batch) ==
    (end_seq - 1) * SAMPLES_PER_BATCH
      + (Len(bytearray(last_batch[2])) \div BYTES_PER_SAMPLE)

\* Mutant of DecodeField: the sign term of line 141 is missing.
DecodeField_Unsigned(lo, hi) == lo + hi * 256

\* adxl345.py:140-141, one 16-bit field from its low and high byte
DecodeField(lo, hi) ==
    (lo + hi * 256) - ((IF hi >= SIGN_BIT THEN SIGN_BIT ELSE 0) * 512)

\* adxl345.py:140-142, the list sdata (before the float factor SCALE)
sdata(d) == [k \in 1..(Len(d) \div 2) |-> DecodeField(d[2 * k - 1], d[2 * k])]

\* sdata(bytearray(data)) of every data field, computed once, by n and v.
Decoded ==
    [n \in 0..SAMPLES_PER_BATCH |-> [v \in FieldValues |-> sdata(DataBytes(<<n, v>>))]]

\* Mutant of BatchRows: the j * sample_to_time of line 146 is missing.
BatchRows_NoSampleOffset(batch, start2, ttime, tcount) ==
    LET seq == batch[1]
        count == Len(bytearray(batch[2]))
        v == Decoded[batch[2][1]][batch[2][2]]
    IN  [n \in 1..(count \div BYTES_PER_SAMPLE) |->
            <<"row",
              Frac(start2 * tcount + (seq * SAMPLES_PER_BATCH) * ttime, tcount),
              v[3 * n - 2], v[3 * n - 1], v[3 * n]>>]

\* adxl345.py:143-147, the rows of one batch.  The time of row j is
\* start2_time + seq * seq_to_time + j * sample_to_time with
\* sample_to_time = total_time / total_count and seq_to_time = 8 * that.
BatchRows(batch, start2, ttime, tcount) ==
    LET seq == batch[1]
        count == Len(bytearray(batch[2]))
        v == Decoded[batch[2][1]][batch[2][2]]
    IN  [n \in 1..(count \div BYTES_PER_SAMPLE) |->
            <<"row",
              Frac(start2 * tcount + (seq * SAMPLES_PER_BATCH + (n - 1)) * ttime, tcount),
              v[3 * n - 2], v[3 * n - 1], v[3 * n]>>]

\* adxl345.py:136-148, the rows of the first n batches of a list
RECURSIVE Rows(_, _, _, _, _)
Rows(list, n, start2, ttime, tcount) ==
    IF n = 0 THEN << >>
    ELSE Rows(list, n - 1, start2, ttime, tcount)
           \o BatchRows(list[n], start2, ttime, tcount)

\* Mutant of do_end_113: line 116 is missing.
do_end_113_KeepRate ==
    /\ main_pc = "end113"
    /\ ~start_due
    /\ end_params' = TRUE
    /\ last_tx_time' = print_time
    /\ main_pc' = "end117"
    /\ UNCHANGED <<query_rate, samples, last_sequence, samples_start1,
                   samples_start2, heap, rate, print_time, e_samples,
                   end_sequence, total_count, hvars, start_due, outvars,
                   prev_sequence, trailing>>

\* Lines 113-116: the adxl345_end response arrives.  The transport delivers
\* in order: an adxl345_start still owed comes first.  The fields of the
\* response are drawn where do_end first reads them (lines 120-122, 133).
do_end_113 ==
    /\ main_pc = "end113"
    /\ ~start_due
    /\ end_params' = TRUE
    /\ last_tx_time' = print_time
    /\ query_rate' = 0
    /\ main_pc' = "end117"
    /\ UNCHANGED <<samples, last_sequence, samples_start1, samples_start2,
                   heap, rate, print_time, e_samples, end_sequence,
                   total_count, hvars, start_due, outvars, prev_sequence,
                   trailing>>

\* Mutant of do_end_117: line 118 is missing.
do_end_117_NoReset ==
    /\ main_pc = "end117"
    /\ e_samples' = samples
    /\ main_pc' = "end120"
    /\ UNCHANGED <<objvars, heap, rate, print_time, end_params, end_sequence,
                   total_count, hvars, start_due, outvars, prev_sequence,
                   trailing>>

\* Lines 117-118: samples = self.samples; self.samples = [].
do_end_117 ==
    /\ main_pc = "end117"
    /\ e_samples' = samples
    /\ LET live == Live(samples, 0, h_samples)
           new == NewList(live)
       IN  /\ samples' = new
           /\ heap' = [Collect(heap, live) EXCEPT ![new] = << >>]
    /\ main_pc' = "end120"
    /\ UNCHANGED <<query_rate, last_tx_time, last_sequence, samples_start1,
                   samples_start2, rate, print_time, end_params,
                   end_sequence, total_count, hvars, start_due, outvars,
                   prev_sequence, trailing>>

\* Line 122: the final sequence params['sequence'], extended with
\* self.last_sequence.
do_end_122 ==
    /\ main_pc = "end120"
    /\ \E sequence \in EndSequences :
         end_sequence' = _convert_sequence(sequence)
    /\ main_pc' = "end123"
    /\ UNCHANGED <<objvars, heap, rate, print_time, end_params, e_samples,
                   total_count, hvars, start_due, outvars, prev_sequence,
                   trailing>>

\* Line 123: total_count; samples[-1] raises IndexError on an empty list.
do_end_123 ==
    /\ main_pc = "end123"
    /\ IF heap[e_samples] = << >>
       THEN /\ result' = "IndexError"
            /\ main_pc' = "done"
            /\ total_count' = total_count
       ELSE /\ total_count' = TotalCount(end_sequence,
                                         heap[e_samples][Len(heap[e_samples])])
            /\ main_pc' = "end124"
            /\ result' = result
    /\ UNCHANGED <<objvars, heap, rate, print_time, end_params, e_samples,
                   end_sequence, hvars, start_due, sent, csv, prev_sequence,
                   trailing>>

\* Mutant of FileLines: the rows are timed from start1_time (line 143).
FileLines_RowsFromStart1(start1, start2, end1, end2, limit_count, end_seq, tcount, list) ==
    LET rows == Rows(list, Len(list), start1, end2 - start2, tcount)
        actual_count == Len(rows)
    IN  << <<"start", start1, start2, end1, end2>>,
           <<"limit_count", limit_count, end_seq, Frac(end2 - start2, tcount)>>,
           <<"#time,x,y,z">> >>
          \o rows
          \o << <<"count", tcount, actual_count, tcount - actual_count>> >>

\* Mutant of FileLines: drops is actual_count - total_count.
FileLines_DropsFlipped(start1, start2, end1, end2, limit_count, end_seq, tcount, list) ==
    LET rows == Rows(list, Len(list), start2, end2 - start2, tcount)
        actual_count == Len(rows)
    IN  << <<"start", start1, start2, end1, end2>>,
           <<"limit_count", limit_count, end_seq, Frac(end2 - start2, tcount)>>,
           <<"#time,x,y,z">> >>
          \o rows
          \o << <<"count", tcount, actual_count, actual_count - tcount>> >>

\* adxl345.py:130-150, the lines of the file
FileLines(start1, start2, end1, end2, limit_count, end_seq, tcount, list) ==
    LET rows == Rows(list, Len(list), start2, end2 - start2, tcount)
        actual_count == Len(rows)
    IN  << <<"start", start1, start2, end1, end2>>,
           <<"limit_count", limit_count, end_seq, Frac(end2 - start2, tcount)>>,
           <<"#time,x,y,z">> >>
          \o rows
          \o << <<"count", tcount, actual_count, tcount - actual_count>> >>

\* Lines 124-151 (with end1_time and end2_time of lines 120-121): the sample
\* interval, where the division of line 126 raises ZeroDivisionError when
\* total_count is 0; then the file with the rows of the batches the list
\* holds at line 136; do_end returns and line 157 reports.
do_end_124 ==
    /\ main_pc = "end124"
    /\ IF total_count = 0
       THEN /\ result' = "ZeroDivisionError"
            /\ csv' = csv
       ELSE /\ \E end1 \in Clocks, end2 \in Clocks, limit_count \in LimitCounts :
                 csv' = FileLines(samples_start1, samples_start2,
                                  _clock_to_print_time(end1),
                                  _clock_to_print_time(end2), limit_count,
                                  end_sequence, total_count, heap[e_samples])
            /\ result' = "stopped"
    /\ main_pc' = "done"
    /\ UNCHANGED <<objvars, heap, rate, print_time, end_params, e_samples,
                   end_sequence, total_count, hvars, start_due, sent,
                   prev_sequence, trailing>>

---------------------------------------------------------------------------
(* Main thread: cmd_ACCELEROMETER_MEASURE, adxl345.py:153-163, with the    *)
(* parts of do_start and do_end that touch nothing the background thread   *)
(* touches: one action per way through them.                               *)

\* Mutant of Dispatch: the test of line 158 is missing.
Dispatch_NoRunningCheck(r, running) ==
    IF r = 0 THEN "do_end"
    ELSE IF r \notin DOMAIN QUERY_RATES THEN "InvalidRate"
    ELSE "do_start"

\* Mutant of Dispatch: the test of line 160 comes before that of line 158.
Dispatch_RateCheckFirst(r, running) ==
    IF r = 0 THEN "do_end"
    ELSE IF r \notin DOMAIN QUERY_RATES THEN "InvalidRate"
    ELSE IF running # 0 THEN "AlreadyRunning"
    ELSE "do_start"

\* Lines 155-163: where the command goes.
Dispatch(r, running) ==
    IF r = 0 THEN "do_end"
    ELSE IF running # 0 THEN "AlreadyRunning"
    ELSE IF r \notin DOMAIN QUERY_RATES THEN "InvalidRate"
    ELSE "do_start"

\* Mutant of NothingToStop: the early return of lines 108-109 is missing.
NothingToStop_Never(running) == FALSE

\* Line 108: do_end has nothing to stop.
NothingToStop(running) == running = 0

\* Mutant of IdOk: the id is not compared.
IdOk_Always(id) == TRUE

\* Line 84.
IdOk(id) == id = ADXL345_DEVID

\* Lines 159 and 161: the command raises gcmd.error.
cmd_error ==
    /\ main_pc = "idle"
    /\ \E r \in RateInputs :
         /\ Dispatch(r, query_rate) \in {"AlreadyRunning", "InvalidRate"}
         /\ rate' = r
         /\ result' = Dispatch(r, query_rate)
    /\ main_pc' = "done"
    /\ UNCHANGED <<objvars, heap, print_time, end_params, e_samples, end_sequence,
                   total_count, hvars, start_due,
                   sent, csv, prev_sequence, trailing>>

\* Lines 156-157 with 107-109: do_end returns at once, line 157 reports.
cmd_stop_idle ==
    /\ main_pc = "idle"
    /\ \E r \in RateInputs :
         /\ Dispatch(r, query_rate) = "do_end"
         /\ rate' = r
    /\ NothingToStop(query_rate)
    /\ result' = "stopped"
    /\ main_pc' = "done"
    /\ UNCHANGED <<objvars, heap, print_time, end_params, e_samples, end_sequence,
                   total_count, hvars, start_due,
                   sent, csv, prev_sequence, trailing>>

\* Mutant of do_end_111: the stop command is sent without waiting for its
\* response.
do_end_111_NoWait ==
    /\ main_pc = "idle"
    /\ \E r \in RateInputs :
         /\ Dispatch(r, query_rate) = "do_end"
         /\ rate' = r
    /\ ~NothingToStop(query_rate)
    /\ \E t \in PrintTimes :
         /\ t >= last_tx_time
         /\ print_time' = t
         /\ last_tx_time' = t
         /\ sent' = Append(sent, <<"query_adxl345_end", <<0, 0>>, print_time_to_clock(t)>>)
    /\ query_rate' = 0
    /\ main_pc' = "end117"
    /\ UNCHANGED <<samples, last_sequence, samples_start1, samples_start2,
                   heap, end_params, e_samples, end_sequence, total_count,
                   hvars, start_due, result, csv, prev_sequence, trailing>>

\* Lines 156 with 107-113: the stop command is sent; do_end waits for its
\* response.
do_end_111 ==
    /\ main_pc = "idle"
    /\ \E r \in RateInputs :
         /\ Dispatch(r, query_rate) = "do_end"
         /\ rate' = r
    /\ ~NothingToStop(query_rate)
    /\ \E t \in PrintTimes :
         /\ t >= last_tx_time
         /\ print_time' = t
         /\ sent' = Append(sent, <<"query_adxl345_end", <<0, 0>>, print_time_to_clock(t)>>)
    /\ main_pc' = "end113"
    /\ UNCHANGED <<objvars, heap, end_params, e_samples, end_sequence,
                   total_count, hvars, start_due, result, csv, prev_sequence,
                   trailing>>

\* Lines 163 with 82-86: the identification read answers another id.
do_start_85 ==
    /\ main_pc = "idle"
    /\ \E r \in RateInputs :
         /\ Dispatch(r, query_rate) = "do_start"
         /\ rate' = r
    /\ \E id \in DevIds :
         /\ ~IdOk(id)
         /\ sent' = Append(sent, <<"spi_transfer", <<REG_DEVID + REG_MOD_READ, 0>>, id>>)
    /\ result' = "DeviceMismatch"
    /\ main_pc' = "done"
    /\ UNCHANGED <<objvars, heap, print_time, end_params, e_samples, end_sequence,
                   total_count, hvars, start_due,
                   csv, prev_sequence, trailing>>

\* Mutant of do_start_82: line 96 is missing.
do_start_82_NoNewList ==
    /\ main_pc = "idle"
    /\ \E r \in RateInputs :
         /\ Dispatch(r, query_rate) = "do_start"
         /\ rate' = r
         /\ \E id \in DevIds :
              /\ IdOk(id)
              /\ LET clock == IF last_tx_time # 0
                              THEN print_time_to_clock(last_tx_time) ELSE 0
                 IN  sent' = sent \o
                       << <<"spi_transfer", <<REG_DEVID + REG_MOD_READ, 0>>, id>>,
                          <<"spi_send", <<REG_DATA_FORMAT, 11>>, clock>>,
                          <<"spi_send", <<REG_FIFO_CTL, 128>>, 0>>,
                          <<"spi_send", <<REG_BW_RATE, QUERY_RATES[r]>>, 0>> >>
    /\ \E t \in PrintTimes : t >= last_tx_time /\ print_time' = t
    /\ UNCHANGED <<samples, heap>>
    /\ main_pc' = "start97"
    /\ UNCHANGED <<query_rate, last_tx_time, last_sequence, samples_start1,
                   samples_start2, end_params, e_samples, end_sequence, total_count, hvars, start_due, result, csv,
                   prev_sequence, trailing>>

\* Lines 163 with 82-96: the identification read, the three configuration
\* writes, the print time, and self.samples = [].
do_start_82 ==
    /\ main_pc = "idle"
    /\ \E r \in RateInputs :
         /\ Dispatch(r, query_rate) = "do_start"
         /\ rate' = r
         /\ \E id \in DevIds :
              /\ IdOk(id)
              /\ LET clock == IF last_tx_time # 0
                              THEN print_time_to_clock(last_tx_time) ELSE 0
                 IN  sent' = sent \o
                       << <<"spi_transfer", <<REG_DEVID + REG_MOD_READ, 0>>, id>>,
                          <<"spi_send", <<REG_DATA_FORMAT, 11>>, clock>>,
                          <<"spi_send", <<REG_FIFO_CTL, 128>>, 0>>,
                          <<"spi_send", <<REG_BW_RATE, QUERY_RATES[r]>>, 0>> >>
    /\ \E t \in PrintTimes : t >= last_tx_time /\ print_time' = t
    /\ LET live == Live(0, e_samples, h_samples)
           new == NewList(live)
       IN  /\ samples' = new
           /\ heap' = [Collect(heap, live) EXCEPT ![new] = << >>]
    /\ main_pc' = "start97"
    /\ UNCHANGED <<query_rate, last_tx_time, last_sequence, samples_start1,
                   samples_start2, end_params, e_samples, end_sequence, total_count, hvars, start_due, result, csv,
                   prev_sequence, trailing>>

\* Mutant of do_start_97: line 97 is missing.
do_start_97_NoReset ==
    /\ main_pc = "start97"
    /\ samples_start1' = print_time
    /\ samples_start2' = print_time
    /\ main_pc' = "start100"
    /\ UNCHANGED <<query_rate, last_tx_time, samples, last_sequence, heap,
                   rate, print_time, end_params, e_samples, end_sequence,
                   total_count, hvars, start_due, outvars, trailing,
                   prev_sequence>>

\* Lines 97-98: the sequence context and the two start times.
do_start_97 ==
    /\ main_pc = "start97"
    /\ last_sequence' = 0
    /\ prev_sequence' = -1
    /\ samples_start1' = print_time
    /\ samples_start2' = print_time
    /\ main_pc' = "start100"
    /\ UNCHANGED <<query_rate, last_tx_time, samples, heap, rate, print_time,
                   end_params, e_samples, end_sequence, total_count, hvars, start_due, outvars, trailing>>

\* Lines 100-105: the start-stream command; do_start returns.
do_start_100 ==
    /\ main_pc = "start100"
    /\ LET reqclock == print_time_to_clock(print_time)
       IN  sent' = Append(sent, <<"query_adxl345",
                                  <<reqclock, rest_ticks_of(rate)>>, reqclock>>)
    /\ last_tx_time' = print_time
    /\ query_rate' = rate
    /\ start_due' = TRUE
    /\ trailing' = 0
    /\ result' = "started"
    /\ main_pc' = "done"
    /\ UNCHANGED <<samples, last_sequence, samples_start1, samples_start2,
                   heap, rate, print_time, end_params, e_samples, end_sequence, total_count, hvars, csv, prev_sequence>>

\* The command has returned or raised (main_pc = "done"): the caller takes
\* its report, and the main thread is free for the next command.
gcode_return ==
    /\ main_pc = "done"
    /\ main_pc' = "idle"
    /\ rate' = 0
    /\ print_time' = 0
    /\ end_params' = FALSE
    /\ e_samples' = 0
    /\ end_sequence' = 0
    /\ total_count' = 0
    /\ heap' = Collect(heap, Live(samples, 0, h_samples))
    /\ result' = "none"
    /\ sent' = << >>
    /\ csv' = << >>
    /\ UNCHANGED <<objvars, hvars, start_due, prev_sequence, trailing>>

---------------------------------------------------------------------------
Background ==
    \/ _handle_adxl345_start
    \/ handle_data_65
    \/ handle_data_66
    \/ handle_data_70
    \/ handle_data_71

Main ==
    \/ gcode_return
    \/ cmd_error
    \/ cmd_stop_idle
    \/ do_start_85
    \/ do_start_82
    \/ do_start_97
    \/ do_start_100
    \/ do_end_111
    \/ do_end_113
    \/ do_end_117
    \/ do_end_122
    \/ do_end_123
    \/ do_end_124

Next == Main \/ Background

Spec == Init /\ [][Next]_vars

---------------------------------------------------------------------------
(* The report of do_end, lines 120-151, as a function of the drained list,  *)
(* the sequence context, the start times and the adxl345_end response: the  *)
(* main thread alone, from line 120 on.                                     *)

\* The lists of n batches the handler stores, with the sequence context it
\* leaves: each batch extends the context of the one before (lines 66-69)
\* and is appended (line 74).
RECURSIVE Stored(_, _)
Stored(n, datas) ==
    IF n = 0 THEN {<< << >>, 0 >>}
    ELSE {<<Append(p[1], <<ExtendSequence(p[2], raw), data>>),
            ExtendSequence(p[2], raw)>> :
             p \in Stored(n - 1, datas), raw \in ReportSequences, data \in datas}

\* The drained lists: up to MaxBatches batches of no, three or eight
\* samples; and one batch of one sample, of every field value.
DrainedLists ==
    UNION {Stored(n, Payloads \cup {<<3, -5>>}) : n \in 0..MaxBatches}
      \cup {p \in Stored(1, {<<1, v>> : v \in FieldValues}) : p[2] = 0}

\* do_end at line 120: the stop command was answered (lines 111-116) and
\* the list was taken (lines 117-118).
ReportInit ==
    /\ query_rate = 0
    /\ last_tx_time = 1
    /\ samples = 2
    /\ \E p \in DrainedLists :
         /\ heap = [i \in ListIds |-> IF i = 1 THEN p[1] ELSE << >>]
         /\ last_sequence = p[2]
         /\ prev_sequence = IF p[1] = << >> THEN -1 ELSE p[2]
    /\ \E c1 \in Clocks, c2 \in Clocks :
         /\ samples_start1 = _clock_to_print_time(c1)
         /\ samples_start2 = _clock_to_print_time(c2)
    /\ main_pc = "end120"
    /\ rate = 0
    /\ print_time = 1
    /\ end_params = TRUE
    /\ e_samples = 1
    /\ end_sequence = 0
    /\ total_count = 0
    /\ h_pc = "idle"
    /\ h_last_sequence = 0
    /\ h_sequence = 0
    /\ h_samples = 0
    /\ start_due = FALSE
    /\ trailing = 0
    /\ result = "none"
    /\ sent = << <<"query_adxl345_end", <<0, 0>>, print_time_to_clock(1)>> >>
    /\ csv = << >>

ReportNext ==
    \/ do_end_122
    \/ do_end_123
    \/ do_end_124

ReportSpec == ReportInit /\ [][ReportNext]_vars

---------------------------------------------------------------------------
(* Properties *)

\* The main thread takes a step.
MainStep == main_pc' # main_pc
\* A command is dispatched with RATE = rate'.
CommandStep == main_pc = "idle" /\ main_pc' # "idle"
\* The fields of the ADXL345 object and the list objects are as they were.
NothingChanged == UNCHANGED <<objvars, heap>>
\* The rates the chip supports.
SupportedRates == {25, 50, 100, 200, 400, 800, 1600, 3200}
\* s is a prefix of t.
IsPrefix(s, t) == Len(s) <= Len(t) /\ SubSeq(t, 1, Len(s)) = s
\* The transcript holds a message of this name.
WasSent(name) == \E i \in 1..Len(sent) : sent[i][1] = name
\* The file holds no row.
NoRows == \A i \in 1..Len(csv) : csv[i][1] # "row"

\* C1: within one session (since the context was last reset to 0), every
\* extended sequence value the batch handler computes is >= the one it
\* computed for the previous delivery.
C1_ExtendedNonDecreasing ==
    [][(h_pc = "h66" /\ h_pc' = "h70" /\ prev_sequence # -1)
         => h_sequence' >= prev_sequence]_vars

\* C1: a session in which the counter has wrapped: the delivery after
\* sequence 1, with the raw value 0, got 0x10000.
C1_Witness ==
    /\ query_rate # 0
    /\ h_pc = "h70"
    /\ h_sequence = SEQ_WRAP
    /\ heap[samples] # << >>
    /\ heap[samples][1][1] = 1

C3_StartWhileStreaming ==
    [][(CommandStep /\ rate' # 0 /\ query_rate # 0)
         => /\ result' = "AlreadyRunning"
            /\ main_pc' = "done"
            /\ sent' = << >>
            /\ NothingChanged]_vars

\* C3: a refused start in a session that has data and a moved context.
C3_Witness ==
    /\ main_pc = "done"
    /\ result = "AlreadyRunning"
    /\ query_rate # 0
    /\ heap[samples] # << >>
    /\ last_sequence # 0

\* C4: a stop request (RATE = 0) while Idle reports "stopped", sends
\* nothing, writes no file, changes no field and no list; the controller
\* stays Idle.
C4_StopWhileIdle ==
    [][(CommandStep /\ rate' = 0 /\ query_rate = 0)
         => /\ result' = "stopped"
            /\ main_pc' = "done"
            /\ sent' = << >>
            /\ csv' = << >>
            /\ query_rate' = 0
            /\ NothingChanged]_vars

\* C4: a stop that found nothing to stop, after an earlier session.
C4_Witness ==
    /\ main_pc = "done"
    /\ result = "stopped"
    /\ rate = 0
    /\ ~end_params
    /\ last_tx_time # 0

\* A start request with a rate the chip does not support.
UnsupportedStart == CommandStep /\ rate' # 0 /\ rate' \notin SupportedRates

\* C5 as stated: a start request with an unsupported rate raises the
\* invalid-rate error whether Idle or Streaming, changes nothing and sends
\* nothing.
C5_InvalidRateInBothStates ==
    [][UnsupportedStart
         => /\ result' = "InvalidRate"
            /\ main_pc' = "done"
            /\ sent' = << >>
            /\ NothingChanged]_vars

\* C5 amended: a start request with an unsupported rate raises the
\* invalid-rate error when Idle and the already-running error when Streaming
\* (line 158 is tested before line 160); in both states it changes nothing
\* and sends nothing.
C5_InvalidRateWhenIdle ==
    [][UnsupportedStart
         => /\ query_rate = 0 => result' = "InvalidRate"
            /\ query_rate # 0 => result' = "AlreadyRunning"
            /\ main_pc' = "done"
            /\ sent' = << >>
            /\ NothingChanged]_vars

\* C5: an unsupported rate was refused with the invalid-rate error.
C5_Witness ==
    /\ main_pc = "done"
    /\ result = "InvalidRate"
    /\ rate \notin SupportedRates
    /\ last_tx_time # 0

\* C5: an unsupported rate was refused while Streaming.
C5_WitnessStreaming ==
    /\ main_pc = "done"
    /\ rate # 0
    /\ rate \notin SupportedRates
    /\ query_rate # 0

\* The identification read of this command answered another id than 0xe5.
IdMismatch ==
    /\ CommandStep
    /\ sent' # << >>
    /\ sent'[1][1] = "spi_transfer"
    /\ sent'[1][3] # 229

\* C6: when the identification read answers an id other than 0xe5, start
\* raises the device-mismatch error, the controller stays Idle, no field and
\* no list changes, and the read is all that went to the device.
C6_DeviceMismatch ==
    [][IdMismatch
         => /\ result' = "DeviceMismatch"
            /\ main_pc' = "done"
            /\ query_rate' = 0
            /\ NothingChanged
            /\ Len(sent') = 1]_vars

\* C6: a start refused for its device id, after an earlier session.
C6_Witness ==
    /\ main_pc = "done"
    /\ result = "DeviceMismatch"
    /\ sent # << >>
    /\ sent[1][3] # 229
    /\ last_tx_time # 0

\* A stop from Streaming has run to its end: the response was received and
\* the command is about to return.
StopDone == main_pc = "done" /\ end_params

\* total_count of line 123 as the claim defines it; the last batch is
\* missing when the drained list is empty.
StopTotalCount ==
    IF result = "IndexError" THEN (end_sequence - 1) * SAMPLES_PER_BATCH
    ELSE total_count

\* C7 as stated: a stop from Streaming ends with the insufficient-samples
\* error exactly when total_count is zero, and with no other error.
C7_InsufficientSamplesIffZero ==
    StopDone
      => /\ result \in {"stopped", "InsufficientSamples"}
         /\ (result = "InsufficientSamples") <=> (StopTotalCount = 0)

\* C7: a stop whose total_count is zero ended with a division by zero.
C7_Witness ==
    /\ StopDone
    /\ result = "ZeroDivisionError"
    /\ total_count = 0
    /\ heap[e_samples] # << >>

\* A stop from Streaming failed with total_count zero.
StopFailedZero ==
    /\ StopDone
    /\ result \in {"ZeroDivisionError", "IndexError"}
    /\ StopTotalCount = 0

\* C8 as stated: when a stop from Streaming fails because total_count is
\* zero, the controller is Idle, the buffer is empty and no row is emitted.
C8_FailedStopBufferEmpty ==
    StopFailedZero
      => /\ query_rate = 0
         /\ heap[samples] = << >>
         /\ NoRows

\* C8 amended: when a stop from Streaming fails because total_count is
\* zero, the controller is Idle, the buffer is a new list that was empty
\* when stop installed it (it holds only batches delivered since), and no
\* row is emitted.
C8_FailedStopSessionEnds ==
    [][/\ (main_pc = "end117" /\ MainStep)
            => /\ samples' # e_samples'
               /\ heap'[samples'] = << >>
       /\ StopFailedZero'
            => /\ query_rate' = 0
               /\ samples' # e_samples'
               /\ e_samples' # 0
               /\ NoRows'
      ]_vars

\* C8: a stop failed with total_count zero although a batch was drained.
C8_Witness ==
    /\ StopFailedZero
    /\ result = "ZeroDivisionError"
    /\ heap[e_samples] # << >>
    /\ csv = << >>

\* C9 as stated: no batch is appended to the list stop has taken as the
\* drained contents.
C9_DrainedListFrozen ==
    [][(e_samples # 0 /\ e_samples' = e_samples)
         => heap'[e_samples] = heap[e_samples]]_vars

\* C9: stop has taken the list as the drained contents while the handler,
\* between its lines 70 and 74, holds the same list and is about to append.
C9_Witness ==
    /\ main_pc = "end120"
    /\ h_pc = "h71"
    /\ h_samples = e_samples
    /\ samples # e_samples
    /\ ~BufferFull(heap[h_samples])

\* C10: every step of stop from the drain on (lines 117-151) is taken with
\* the stop command sent and its response received; the drain in
\* particular.
C10_DrainAfterAck ==
    [][(main_pc \in {"end117", "end120", "end123", "end124"} /\ MainStep)
         => /\ end_params
            /\ WasSent("query_adxl345_end")
            /\ query_rate = 0]_vars

\* C10: the buffer was drained, with data in it, after the response.
C10_Witness ==
    /\ main_pc = "end120"
    /\ end_params
    /\ e_samples # 0
    /\ heap[e_samples] # << >>

\* The number of messages of this name in the transcript.
CountSent(name) == Cardinality({i \in 1..Len(sent) : sent[i][1] = name})

\* A start has run to its end.
StartDone == main_pc = "done" /\ result = "started"

\* C11 as stated: at the end of a successful start the controller is
\* Streaming at the requested rate, the buffer is empty, the context is 0,
\* both start times are the print time, and one start-stream command was
\* sent.
C11_StartPostcondition ==
    StartDone
      => /\ query_rate = rate
         /\ rate \in SupportedRates
         /\ heap[samples] = << >>
         /\ last_sequence = 0
         /\ samples_start1 = print_time
         /\ samples_start2 = print_time
         /\ CountSent("query_adxl345") = 1

\* C11 amended: a successful start installs a new empty list, then sets the
\* context to 0 and both start times to the print time, then sends the one
\* start-stream command and is Streaming at the requested rate; start itself
\* changes the list and the context no more after resetting them, so at its
\* end the buffer and the context hold only what deliveries made while it
\* ran have put there.
C11_StartResetsThenSends ==
    [][/\ (CommandStep /\ main_pc' = "start97")
            => /\ heap'[samples'] = << >>
               /\ CountSent("query_adxl345")' = 0
       /\ (main_pc = "start97" /\ MainStep)
            => /\ last_sequence' = 0
               /\ samples_start1' = print_time
               /\ samples_start2' = print_time
               /\ UNCHANGED <<samples, heap, sent>>
       /\ (main_pc = "start100" /\ MainStep)
            => /\ StartDone'
               /\ rate \in SupportedRates
               /\ query_rate = 0
               /\ query_rate' = rate
               /\ samples_start1 = print_time
               /\ samples_start2 = print_time
               /\ sent' = Append(sent, sent'[Len(sent')])
               /\ sent'[Len(sent')][1] = "query_adxl345"
               /\ CountSent("query_adxl345")' = 1
               /\ UNCHANGED <<samples, heap, last_sequence, samples_start1,
                              samples_start2>>
               /\ last_sequence # 0 => prev_sequence = last_sequence
      ]_vars

\* C11: a start has ended with a batch in the new buffer.
C11_Witness ==
    /\ StartDone
    /\ query_rate = 100
    /\ heap[samples] # << >>
    /\ samples_start2 = print_time

\* C12 as stated: a stop from Streaming whose round trip completed leaves
\* the controller Idle with an empty buffer, having drained the buffer.
C12_StopLeavesEmptyBuffer ==
    StopDone
      => /\ query_rate = 0
         /\ heap[samples] = << >>
         /\ e_samples # 0
         /\ samples # e_samples

\* C12 amended: a stop from Streaming whose round trip completed leaves the
\* controller Idle; it has taken the buffer once, at line 117, and put a new
\* empty list in its place (which deliveries may since have appended to);
\* the controller stays Idle until a start reaches line 103, and while it is
\* Idle a start with a supported rate is taken up (it reads the device id)
\* and a stop changes nothing and sends nothing.
C12_StopEndsSession ==
    [][/\ StopDone'
            => /\ query_rate' = 0
               /\ e_samples' # 0
               /\ samples' # e_samples'
       /\ (e_samples' # e_samples)
            => \/ /\ main_pc = "end117"
                  /\ e_samples = 0
                  /\ e_samples' = samples
                  /\ heap'[e_samples'] = heap[samples]
                  /\ heap'[samples'] = << >>
               \/ /\ main_pc = "done"
                  /\ e_samples' = 0
       /\ (query_rate = 0 /\ query_rate' # 0) => main_pc = "start100"
       /\ (CommandStep /\ query_rate = 0 /\ rate' = 0)
            => /\ result' = "stopped"
               /\ sent' = << >>
               /\ NothingChanged
       /\ (CommandStep /\ query_rate = 0 /\ rate' \in SupportedRates)
            => /\ sent' # << >>
               /\ sent'[1][1] = "spi_transfer"
      ]_vars

\* C12: a stop has written its file with rows and left the controller Idle.
C12_Witness ==
    /\ StopDone
    /\ result = "stopped"
    /\ ~NoRows
    /\ query_rate = 0

\* The list do_end took at line 117.
Drained == heap[e_samples]
\* do_end has returned with its file written.
ReportDone == main_pc = "done" /\ result = "stopped" /\ end_params
\* The rows of the file, in the order written.
FileRows == SubSeq(csv, 4, Len(csv) - 1)
\* The last line of the file: total_count, actual_count, drops.
CountLine == csv[Len(csv)]
\* A loss-free session: the batches have the sequences 0, 1, ... and eight
\* samples each.
LossFree(list) ==
    /\ list # << >>
    /\ \A i \in 1..Len(list) :
         /\ list[i][1] = i - 1
         /\ list[i][2][1] = SAMPLES_PER_BATCH

\* C13: when do_end ends for a drained list of k >= 1 batches with the
\* sequences 0..k-1 and eight samples each, and a final sequence k, it has
\* written its file without an error, total_count is 8k, the file has 8k
\* rows, row i carrying the three field values of the i-th 6-byte group in
\* arrival order, and its last line reports 8k of 8k samples and 0 drops.
C13_LossFreeSession ==
    (main_pc = "done" /\ end_params /\ LossFree(Drained)
       /\ end_sequence = Len(Drained))
      => LET k == Len(Drained)
             total == SAMPLES_PER_BATCH * k
         IN  /\ ReportDone
             /\ total_count = total
             /\ Len(FileRows) = total
             /\ \A i \in 1..total :
                  LET v == Drained[((i - 1) \div SAMPLES_PER_BATCH) + 1][2][2]
                  IN  /\ FileRows[i][1] = "row"
                      /\ <<FileRows[i][3], FileRows[i][4], FileRows[i][5]>>
                           = <<v, 0 - v - 1, v>>
             /\ CountLine = <<"count", total, total, 0>>

\* C13: the report of a loss-free session of two batches.
C13_Witness ==
    /\ ReportDone
    /\ LossFree(Drained)
    /\ Len(Drained) = 2
    /\ end_sequence = 2
    /\ Len(FileRows) = 16

\* a < b for fractions with positive denominators (the rows of one file
\* have the same denominator).
FracLess(a, b) ==
    IF a[2] = b[2] THEN a[1] < b[1] ELSE a[1] * b[2] < b[1] * a[2]
\* The start and end times the file's first line reports: start2_time and
\* end2_time.
FineStart == csv[1][3]
End2Time == csv[1][5]
\* The timestamps of the rows increase strictly in the order written.
RowTimesIncrease ==
    \A i \in 1..(Len(FileRows) - 1) : FracLess(FileRows[i][2], FileRows[i + 1][2])
\* The extended sequences of the drained batches increase strictly, and no
\* batch has more than eight samples.
SequencesIncrease ==
    /\ \A i \in 1..(Len(Drained) - 1) : Drained[i][1] < Drained[i + 1][1]
    /\ \A i \in 1..Len(Drained) : Drained[i][2][1] <= SAMPLES_PER_BATCH

\* C14 as stated: in every report with end2_time > start2_time and
\* total_count > 0, each row's timestamp is greater than that of the row
\* before it.
C14_TimestampsIncrease ==
    (ReportDone /\ End2Time > FineStart /\ total_count > 0)
      => RowTimesIncrease

\* C14 amended: in every report with end2_time > start2_time and
\* total_count > 0 whose drained batches have strictly increasing extended
\* sequences and at most eight samples each, each row's timestamp is
\* greater than that of the row before it.
C14_TimestampsIncreaseForDistinctSequences ==
    (ReportDone /\ End2Time > FineStart /\ total_count > 0 /\ SequencesIncrease)
      => RowTimesIncrease

\* C14: a report of two batches, the second after a gap in the sequence,
\* with rows from both.
C14_Witness ==
    /\ ReportDone
    /\ End2Time > FineStart
    /\ total_count > 0
    /\ Len(Drained) = 2
    /\ SequencesIncrease
    /\ Drained[2][1] = 2
    /\ Len(FileRows) > SAMPLES_PER_BATCH

\* C15: a delivery that finds the list at the cap returns like any other,
\* with no error and no effect on the command in progress; and when do_end
\* ends for a drained list that holds the first cap batches of a session
\* (sequences 0..cap-1, eight samples each) and a final sequence n > cap
\* (n batches were delivered), it has written its file without an error and
\* the last line reports 8n samples expected, 8 * cap written, and
\* drops = 8 * (n - cap) > 0, the samples of the n - cap batches dropped.
C15_OverflowShowsInDrops ==
    [][/\ (h_pc = "h71" /\ h_pc' = "idle" /\ Len(heap[h_samples]) >= SampleCap)
            => /\ UNCHANGED <<mainvars, outvars, objvars>>
               /\ \A l \in Live(samples, e_samples, 0) : heap'[l] = heap[l]
       /\ (main_pc' = "done" /\ end_params' /\ LossFree(Drained')
             /\ Len(Drained') = SampleCap /\ end_sequence' > SampleCap)
            => /\ ReportDone'
               /\ CountLine' = <<"count", SAMPLES_PER_BATCH * end_sequence',
                                 SAMPLES_PER_BATCH * SampleCap,
                                 SAMPLES_PER_BATCH * (end_sequence' - SampleCap)>>
               /\ CountLine'[4] > 0
      ]_vars

\* C15: a session in which a batch was dropped at the cap (the context
\* moved past the last stored sequence) has been reported with drops.
C15_Witness ==
    /\ ReportDone
    /\ LossFree(Drained)
    /\ Len(Drained) = SampleCap
    /\ last_sequence = SampleCap
    /\ end_sequence = SampleCap + 1
    /\ CountLine[4] = SAMPLES_PER_BATCH

\* The number of rows the first n batches of a list give.
RECURSIVE RowsBefore(_, _)
RowsBefore(list, n) ==
    IF n = 0 THEN 0 ELSE RowsBefore(list, n - 1) + list[n][2][1]

\* C16: every row of the file carries, as its three values, the three field
\* values that were encoded (little endian, sign extended to 16 bit) in its
\* 6-byte group: v, -v - 1 and v for a sample of a batch <<n, v>>, for every
\* v in -4096..4095.
C16_DecodeRoundTrip ==
    ReportDone
      => /\ Len(FileRows) = RowsBefore(Drained, Len(Drained))
         /\ \A i \in 1..Len(Drained) : \A j \in 1..Drained[i][2][1] :
              LET row == FileRows[RowsBefore(Drained, i - 1) + j]
                  v == Drained[i][2][2]
              IN  /\ v \in FieldValues
                  /\ <<row[3], row[4], row[5]>> = <<v, 0 - v - 1, v>>

\* C16: the most negative field value came back from its bytes 0x00, 0xf0.
C16_Witness ==
    /\ ReportDone
    /\ Drained = << <<0, <<1, -4096>> >> >>
    /\ Encode16(-4096) = <<0, 240>>
    /\ FileRows[1][3] = -4096
    /\ FileRows[1][4] = 4095

\* The handler returns.
HandlerReturns == h_pc = "h71" /\ h_pc' = "idle"

\* C17 as stated: when a delivery ends, stored or dropped, the context is
\* the extended value computed for it.
C17_ContextAfterDelivery ==
    [][HandlerReturns => last_sequence' = h_sequence]_vars

\* C17 amended: every delivery stores the extended value it computed in the
\* context (line 69) before it looks at the buffer, and the rest of the
\* handler leaves the context alone whether the batch is stored or dropped;
\* when the delivery ends the context is that value, unless line 97 of a
\* start has reset it to 0 in between.
C17_ContextAdvancedAtIngestion ==
    [][/\ (h_pc = "h66" /\ h_pc' = "h70")
            => /\ last_sequence' = h_sequence'
               /\ h_sequence' >= h_last_sequence
               /\ h_sequence' < h_last_sequence + SEQ_WRAP
               /\ h_sequence' % SEQ_WRAP \in RawSequences
       /\ (h_pc \in {"h70", "h71"} /\ h_pc' # h_pc)
            => last_sequence' = last_sequence
       /\ HandlerReturns
            => \/ last_sequence' = h_sequence
               \/ last_sequence' = 0 /\ prev_sequence' = -1
      ]_vars

\* C17: a batch is about to be dropped at the cap, and the context has
\* already moved to its sequence, past the last stored one.
C17_Witness ==
    /\ h_pc = "h71"
    /\ query_rate # 0
    /\ h_samples = samples
    /\ Len(heap[h_samples]) >= SampleCap
    /\ last_sequence = h_sequence
    /\ h_sequence > heap[h_samples][Len(heap[h_samples])][1]

\* x is the smallest integer >= L whose low 16 bits are r.
IsExtension(x, L, r) ==
    /\ x >= L
    /\ x % SEQ_WRAP = r
    /\ x - SEQ_WRAP < L

\* C18: the value the handler computes for a raw sequence r from the context
\* L it read is the smallest integer >= L with low 16 bits r, so within
\* [L, L + 0xffff], and it is what the handler stores in the context; the
\* final sequence do_end computes at line 122 is the same function of the
\* context as it stands then and of the raw final sequence, and line 122
\* leaves the context as it is.
C18_OneWrapExtension ==
    [][/\ (h_pc = "h66" /\ h_pc' = "h70")
            => /\ \E r \in RawSequences : IsExtension(h_sequence', h_last_sequence, r)
               /\ h_sequence' <= h_last_sequence + (SEQ_WRAP - 1)
               /\ last_sequence' = h_sequence'
       /\ (main_pc = "end120" /\ MainStep)
            => /\ \E r \in EndSequences : IsExtension(end_sequence', last_sequence, r)
               /\ end_sequence' <= last_sequence + (SEQ_WRAP - 1)
               /\ last_sequence' = last_sequence
      ]_vars

\* C18: the final sequence wrapped: the raw value 0 with the context at 1
\* gave 0x10000, and the context is still 1.
C18_Witness ==
    /\ main_pc = "end123"
    /\ last_sequence = 1
    /\ end_sequence = SEQ_WRAP
    /\ Drained # << >>
    /\ Drained[Len(Drained)][1] = 1

\* C19 as stated, at the moment a start has ended and no delivery is in
\* progress: every batch delivered so far was delivered before the session
\* began, so none is in the session's buffer; and the context is 0, so that
\* the next batch, with raw sequence r, is stored with r.
C19_SessionsIsolated ==
    (StartDone /\ h_pc = "idle")
      => /\ heap[samples] = << >>
         /\ last_sequence = 0

\* C19 amended: start gives the session a new list object that is empty and
\* that no handler in progress holds, and only start and stop replace the
\* list, so the session's output holds no batch whose handler read
\* self.samples (line 70) before line 96 of that start; and a handler that
\* reads the context (line 65) after line 97 of the start, with no delivery
\* having stored since, reads 0 and stores its batch with its raw sequence,
\* carrying nothing over.
C19_IsolatedUnlessOverlapping ==
    [][/\ (CommandStep /\ main_pc' = "start97")
            => /\ heap'[samples'] = << >>
               /\ samples' # h_samples
       /\ (samples' # samples)
            => \/ CommandStep /\ main_pc' = "start97"
               \/ main_pc = "end117" /\ MainStep
       /\ (h_pc = "h70" /\ h_pc' = "h71") => h_samples' = samples
       /\ (h_pc = "h71" /\ h_pc' = "idle")
            => \A l \in ListIds \ {h_samples} :
                 l \in Live(samples, e_samples, 0) => heap'[l] = heap[l]
       /\ (h_pc = "idle" /\ h_pc' = "h66" /\ prev_sequence = -1)
            => h_last_sequence' = 0
       /\ (h_pc = "h66" /\ h_pc' = "h70" /\ h_last_sequence = 0)
            => /\ h_sequence' \in RawSequences
               /\ last_sequence' = h_sequence'
      ]_vars

\* C19: a new session has its own empty list and a context of 0 while a
\* handler that began in the earlier one still holds the earlier list, with
\* a batch in it, and a sequence beyond the first.
C19_Witness ==
    /\ main_pc = "start100"
    /\ h_pc = "h71"
    /\ h_samples # samples
    /\ heap[h_samples] # << >>
    /\ heap[samples] = << >>
    /\ last_sequence = 0
    /\ h_sequence # 0

\* The drained batches have at most eight samples each and the last one has
\* the extended sequence end_sequence - 1.
LastBatchBeforeEnd ==
    /\ Drained # << >>
    /\ \A i \in 1..Len(Drained) : Drained[i][2][1] <= SAMPLES_PER_BATCH
    /\ Drained[Len(Drained)][1] = end_sequence - 1
\* Every row written has an index 8 * extended_sequence + j below
\* total_count and a timestamp t with start2_time <= t < end2_time.
RowsInsideWindow ==
    \A i \in 1..Len(Drained) : \A j \in 1..Drained[i][2][1] :
      LET t == FileRows[RowsBefore(Drained, i - 1) + j][2]
          index == SAMPLES_PER_BATCH * Drained[i][1] + (j - 1)
      IN  /\ index < total_count
          /\ FineStart * t[2] <= t[1]
          /\ t[1] < End2Time * t[2]

\* C20 as stated: in every report with end2_time > start2_time whose
\* drained batches have at most eight samples each, the last with the
\* extended sequence end_sequence - 1, every row has an index below
\* total_count and a timestamp inside [start2_time, end2_time).
C20_TimestampsInsideWindow ==
    (ReportDone /\ End2Time > FineStart /\ LastBatchBeforeEnd)
      => RowsInsideWindow

\* C20 amended: the same, for drained batches whose extended sequences
\* increase strictly.
C20_TimestampsInsideWindowForDistinctSequences ==
    (ReportDone /\ End2Time > FineStart /\ LastBatchBeforeEnd
       /\ SequencesIncrease)
      => RowsInsideWindow

\* C20: a report, with end2_time > start2_time, of two batches with
\* increasing sequences, the last one before end_sequence and not full, whose
\* last row has the index total_count - 1.
C20_Witness ==
    /\ ReportDone
    /\ End2Time > FineStart
    /\ LastBatchBeforeEnd
    /\ SequencesIncrease
    /\ Len(Drained) = 2
    /\ Drained[2][2][1] = 3
    /\ Len(FileRows) = 11
    /\ total_count = SAMPLES_PER_BATCH * Drained[2][1] + 3
    /\ FileRows[11][2][1] = total_count - 1

====
